---- MODULE Spec2Model ----
(***************************************************************************)
(* Model of the nonce counter (nonce_counter/nonce_counter.go): the poll   *)
(* loop of Start, the block range computed by prepareQuery, the bounded    *)
(* fan-out of FindNonces and the mutex-guarded counter map updated by      *)
(* incrementNonce.                                                         *)
(***************************************************************************)
EXTENDS Integers, Sequences, FiniteSets, TLC

(* ------------------------------ bounds --------------------------------- *)
\* highest block number the chain tip and the start block range over
MaxBlock == 2
\* largest configured blockBatchSize
MaxBatch == 1
\* largest configured concurrency when a single batch is explored
MaxConcurrency == 2
\* largest configured concurrency when several iterations are explored
MaxLoopConcurrency == 1
\* number of successful tip fetches explored in one run of Start
MaxIters == 2
\* ranges of the inputs of prepareQuery when it is exercised on its own
PQMaxBlock == 20
PQMaxBatch == 10
PQNegBlocks == 2
\* how far below zero the numeric fields of an invalid Config range
MaxInvalid == 1

(* ---------------------------- addresses -------------------------------- *)
\* A common.Address is a 20 byte value; distinct owners are distinct numbers.
Address == 1..3

\* The hex strings that denote an address differ only in the case of their
\* letters: the EIP-55 mixed-case form, all lower case, all upper case.
Forms == {"eip55", "lower", "upper"}

AddrString(a, f) == [addr |-> a, form |-> f]

\* common.HexToAddress: parses the hex digits whatever their case.
HexToAddress(s) == s.addr

\* Address.Hex(): always the EIP-55 checksum form.
Hex(a) == AddrString(a, "eip55")

\* common.Hash.Hex() of the topic that carries the owner: lower-case hex.
HashHex(a) == AddrString(a, "lower")

\* A comparison that ignores the case of the hex letters.
ContainsFold(list, s) == \E i \in DOMAIN list : HexToAddress(list[i]) = HexToAddress(s)

\* slices.Contains: exact comparison of strings.
Contains(list, s) == \E i \in DOMAIN list : list[i] = s

(* ------------------------------ chain ---------------------------------- *)
\* A raw log: ok says whether its Data unpacks as the event, topics is the
\* number of its Topics, owner the address its second topic carries.
OkLog(a) == [ok |-> TRUE, owner |-> a, topics |-> 2]
BadLog == [ok |-> FALSE, owner |-> 0, topics |-> 2]

\* A log of the contract whose Data unpacks but which has no indexed
\* argument: its only topic is the event signature.
ShortLog == [ok |-> TRUE, owner |-> 0, topics |-> 1]

\* Two chain histories; block b holds the logs of the watched contract.
ChainA(b) ==
    CASE b % 3 = 0 -> <<OkLog(1), OkLog(1)>>
      [] b % 3 = 1 -> <<BadLog, OkLog(3)>>
      [] OTHER     -> <<OkLog(2)>>

ChainB(b) ==
    CASE b % 3 = 0 -> <<>>
      [] b % 3 = 1 -> <<OkLog(2), OkLog(1)>>
      [] OTHER     -> <<ShortLog, OkLog(1)>>

ChainLogs(c, b) == IF c = "A" THEN ChainA(b) ELSE ChainB(b)

\* client.FilterLogs: the logs of the blocks from..to, in block order.
RECURSIVE FilterLogs(_, _, _)
FilterLogs(c, from, to) ==
    IF from > to THEN <<>>
    ELSE ChainLogs(c, from) \o FilterLogs(c, from + 1, to)

(* --------------------------- configuration ----------------------------- *)
\* Config.Addresses as the operator may write them.
AddressLists ==
    { <<AddrString(1, "eip55"), AddrString(2, "eip55")>>,
      <<AddrString(1, "eip55"), AddrString(2, "lower")>> }

\* The map keyed by the checksummed form of each configured address.
NewAddressToNonceNormalized(list) ==
    [s \in {Hex(HexToAddress(list[i])) : i \in DOMAIN list} |-> 0]

\* NewNonceCounter: every configured address starts at 0.
NewAddressToNonce(list) == [s \in {list[i] : i \in DOMAIN list} |-> 0]

(* ------------------------------ state ---------------------------------- *)
VARIABLES
    cfg,             \* the Config handed to NewNonceCounter
    verr,            \* what config.Validate() returned
    addresses,       \* nc.addresses
    concurrency,     \* nc.concurrency
    blockBatchSize,  \* nc.blockBatchSize
    chain,           \* the chain history the RPC endpoint serves
    addressToNonce,  \* nc.addressToNonce
    mu,              \* nc.mu: 0 when free, else the holder
    cancelled,       \* ctx.Done() is closed
    pc,              \* position of the goroutine running Start
    currentBlock,    \* Start's cursor
    latestBlock,     \* header.Number of the last fetched header
    query,           \* the FilterQuery built by prepareQuery
    logs,            \* the batch handed to FindNonces
    idx,             \* FindNonces: index of the log being dispatched
    foundAddress,    \* FindNonces: the shared flag
    sem,             \* FindNonces: slots of the weighted semaphore in use
    wg,              \* FindNonces: the WaitGroup counter
    wpc,             \* per log of the batch: position of its goroutine
    owner,           \* per goroutine: event.Owner once parsed
    tmp,             \* per goroutine: the count read by the ++
    incremented,     \* per goroutine: what incrementNonce returned
    result,          \* value returned by FindNonces
    snapshot,        \* what printNonces printed, each with its iteration
    iters,           \* successful tip fetches so far
    scanned,         \* history: blocks covered by a processed batch
    firstFrom,       \* history: from of the first processed range, or NoBlock
    batchStart,      \* history: addressToNonce when the batch began
    skipped          \* history: logs of the batch skipped by a failed Acquire

vars == <<cfg, verr, addresses, concurrency, blockBatchSize, chain, addressToNonce, mu,
          cancelled, pc, currentBlock, latestBlock, query, logs, idx,
          foundAddress, sem, wg, wpc, owner, tmp, incremented, result,
          snapshot, iters, scanned, firstFrom, batchStart, skipped>>

config == <<cfg, verr, addresses, concurrency, blockBatchSize, chain>>
loopVars == <<currentBlock, latestBlock, query, iters, scanned, firstFrom>>
workerLocals == <<owner, tmp, incremented>>

DriverId == 0 - 1
NoQuery == [from |-> 0, to |-> 0]
NoBlock == 0 - 1

(* ---------------------------- prepareQuery ----------------------------- *)
prepareQueryNoClamp(tip, cursor, batch) ==
    LET endBlock == IF cursor + batch >= tip THEN tip ELSE cursor + batch
    IN  [from |-> cursor, to |-> endBlock]

prepareQueryNoTip(tip, cursor, batch) ==
    LET endBlock == cursor + batch
        fromBlock == IF cursor > endBlock THEN endBlock ELSE cursor
    IN  [from |-> fromBlock, to |-> endBlock]

prepareQuery(tip, cursor, batch) ==
    LET end0 == cursor + batch
        endBlock == IF end0 >= tip THEN tip ELSE end0
        fromBlock == IF cursor > endBlock THEN endBlock ELSE cursor
    IN  [from |-> fromBlock, to |-> endBlock]

(* ------------------------------ Validate ------------------------------- *)
\* Config.Validate with the test for the addresses and the one for the
\* batch size in the other order.
ValidateBatchFirst(c) ==
    IF c.Concurrency <= 0 THEN "concurrency must be greater than 0"
    ELSE IF c.ContractAddress = "" THEN "contract address must be provided"
    ELSE IF c.ContractABI = "" THEN "contract ABI must be provided"
    ELSE IF c.StartBlock < 0 THEN "start block must be greater than or equal to 0"
    ELSE IF c.EventName = "" THEN "event name must be provided"
    ELSE IF c.BlockBatchSize <= 0 THEN "block batch size must be greater than 0"
    ELSE IF Len(c.Addresses) = 0 THEN "addresses must be provided"
    ELSE "nil"

\* Config.Validate: the first failing test decides the error; nil otherwise.
Validate(c) ==
    IF c.Concurrency <= 0 THEN "concurrency must be greater than 0"
    ELSE IF c.ContractAddress = "" THEN "contract address must be provided"
    ELSE IF c.ContractABI = "" THEN "contract ABI must be provided"
    ELSE IF c.StartBlock < 0 THEN "start block must be greater than or equal to 0"
    ELSE IF c.EventName = "" THEN "event name must be provided"
    ELSE IF Len(c.Addresses) = 0 THEN "addresses must be provided"
    ELSE IF c.BlockBatchSize <= 0 THEN "block batch size must be greater than 0"
    ELSE "nil"

\* The Config of cmd/main.go for the given tunables (StartBlock is left 0).
MainConfig(conc, addrs, batch) ==
    [Concurrency |-> conc, ContractAddress |-> "0x38A4", ContractABI |-> "abi",
     StartBlock |-> 0, EventName |-> "ValidatorAdded", Addresses |-> addrs,
     BlockBatchSize |-> batch]

(* ------------------------------- Init ---------------------------------- *)
\* State after NewNonceCounter(config) and the first lines of Start
\* (Start's cursor is set to startBlock).
InitState(concurrencies, fetches) ==
    /\ addresses \in AddressLists
    /\ concurrency \in concurrencies
    /\ blockBatchSize \in 1..MaxBatch
    /\ chain \in {"A", "B"}
    /\ cfg = MainConfig(concurrency, addresses, blockBatchSize)
    /\ verr = Validate(cfg)
    /\ addressToNonce = NewAddressToNonce(addresses)
    /\ mu = 0
    /\ cancelled = FALSE
    /\ pc = "LoopTop"
    /\ currentBlock \in 0..MaxBlock
    /\ latestBlock = 0
    /\ query = NoQuery
    /\ logs = <<>>
    /\ idx = 1
    /\ foundAddress = FALSE
    /\ sem = 0
    /\ wg = 0
    /\ wpc = <<>>
    /\ owner = <<>>
    /\ tmp = <<>>
    /\ incremented = <<>>
    /\ result = FALSE
    /\ snapshot = <<>>
    /\ iters = fetches
    /\ scanned = {}
    /\ firstFrom = NoBlock
    /\ batchStart = addressToNonce
    /\ skipped = {}

Init == InitState(1..MaxLoopConcurrency, 0)

(* --------------------------- the poll loop ----------------------------- *)
fnVars == <<logs, idx, foundAddress, sem, wg, wpc, result, batchStart, skipped>>

\* An unrecovered panic of any goroutine ends the process: nothing runs.
Alive == pc # "Panicked"

\* signal.NotifyContext cancels ctx at any moment.
Cancel ==
    /\ ~cancelled
    /\ pc # "Stopped"
    /\ Alive
    /\ cancelled' = TRUE
    /\ UNCHANGED <<config, addressToNonce, mu, pc, loopVars, fnVars,
                   workerLocals, snapshot>>

\* select { case <-ctx.Done(): return nil; default: ... }
LoopSelect ==
    /\ pc = "LoopTop"
    /\ pc' = IF cancelled THEN "Stopped" ELSE "FetchTip"
    /\ UNCHANGED <<config, addressToNonce, mu, cancelled, loopVars, fnVars,
                   workerLocals, snapshot>>

\* client.HeaderByNumber succeeds with some tip.
FetchTipOk ==
    /\ pc = "FetchTip"
    /\ iters < MaxIters
    /\ \E t \in 0..MaxBlock : latestBlock' = t
    /\ iters' = iters + 1
    /\ pc' = "PrepareRange"
    /\ UNCHANGED <<config, addressToNonce, mu, cancelled, currentBlock, query,
                   scanned, firstFrom,
                   fnVars, workerLocals, snapshot>>

\* client.HeaderByNumber fails: log, sleep, break out of the select.
FetchTipFail ==
    /\ pc = "FetchTip"
    /\ pc' = "LoopTop"
    /\ UNCHANGED <<config, addressToNonce, mu, cancelled, loopVars, fnVars,
                   workerLocals, snapshot>>

\* query := nc.prepareQuery(header, currentBlock)
PrepareRange ==
    /\ pc = "PrepareRange"
    /\ query' = prepareQuery(latestBlock, currentBlock, blockBatchSize)
    /\ pc' = "FetchLogs"
    /\ UNCHANGED <<config, addressToNonce, mu, cancelled, currentBlock,
                   latestBlock, iters, scanned, firstFrom,
                   fnVars, workerLocals, snapshot>>

\* client.FilterLogs succeeds; FindNonces is entered with the batch and
\* sets up its flag, semaphore and WaitGroup.
FetchLogsOk ==
    /\ pc = "FetchLogs"
    /\ LET batch == FilterLogs(chain, query.from, query.to)
       IN  /\ logs' = batch
           /\ wpc' = [w \in DOMAIN batch |-> "idle"]
           /\ owner' = [w \in DOMAIN batch |-> 0]
           /\ tmp' = [w \in DOMAIN batch |-> 0]
           /\ incremented' = [w \in DOMAIN batch |-> "none"]
    /\ idx' = 1
    /\ foundAddress' = FALSE
    /\ sem' = 0
    /\ wg' = 0
    /\ skipped' = {}
    /\ batchStart' = addressToNonce
    /\ scanned' = scanned \cup (query.from .. query.to)
    /\ firstFrom' = IF scanned = {} THEN query.from ELSE firstFrom
    /\ pc' = "Dispatch"
    /\ UNCHANGED <<config, addressToNonce, mu, cancelled, currentBlock,
                   latestBlock, query, iters, result, snapshot>>

\* A failed FilterLogs that nevertheless moves the cursor past the range.
FetchLogsFailAdvance ==
    /\ pc = "FetchLogs"
    /\ currentBlock' = query.to + 1
    /\ pc' = "LoopTop"
    /\ UNCHANGED <<config, addressToNonce, mu, cancelled, latestBlock, query,
                   iters, scanned, firstFrom,
                   fnVars, workerLocals, snapshot>>

\* client.FilterLogs fails: log, sleep, break out of the select.
FetchLogsFail ==
    /\ pc = "FetchLogs"
    /\ pc' = "LoopTop"
    /\ UNCHANGED <<config, addressToNonce, mu, cancelled, loopVars, fnVars,
                   workerLocals, snapshot>>

(* ------------------------ FindNonces: dispatcher ----------------------- *)
dispatchUnch == <<config, addressToNonce, mu, cancelled, loopVars, logs,
                  foundAddress, result, batchStart, workerLocals, snapshot>>

\* for _, vLog := range logs { wg.Add(1) ... } ; after the last log: wg.Wait()
ForNext ==
    /\ pc = "Dispatch"
    /\ IF idx <= Len(logs)
       THEN /\ wg' = wg + 1
            /\ pc' = "Acquire"
       ELSE /\ wg' = wg
            /\ pc' = "Wait"
    /\ UNCHANGED <<dispatchUnch, idx, sem, wpc, skipped>>

\* A slot can be taken when fewer than nc.concurrency are in use.
SlotFreeAlways(n) == TRUE

SlotFree(n) == n < concurrency

\* sem.Acquire(ctx, 1) returns nil: the goroutine for the log is started.
AcquireOk ==
    /\ pc = "Acquire"
    /\ SlotFree(sem)
    /\ sem' = sem + 1
    /\ wpc' = [wpc EXCEPT ![idx] = "parse"]
    /\ idx' = idx + 1
    /\ pc' = "Dispatch"
    /\ UNCHANGED <<dispatchUnch, wg, skipped>>

\* A failed Acquire that continues without giving back its WaitGroup count.
AcquireFailNoDone ==
    /\ pc = "Acquire"
    /\ cancelled
    /\ skipped' = skipped \cup {idx}
    /\ idx' = idx + 1
    /\ pc' = "Dispatch"
    /\ UNCHANGED <<dispatchUnch, sem, wg, wpc>>

\* sem.Acquire(ctx, 1) returns ctx.Err(): wg.Done(); continue
AcquireFail ==
    /\ pc = "Acquire"
    /\ cancelled
    /\ wg' = wg - 1
    /\ skipped' = skipped \cup {idx}
    /\ idx' = idx + 1
    /\ pc' = "Dispatch"
    /\ UNCHANGED <<dispatchUnch, sem, wpc>>

\* A Wait that returns without looking at the counter.
WaitNoJoin ==
    /\ pc = "Wait"
    /\ pc' = "Return"
    /\ UNCHANGED <<dispatchUnch, idx, sem, wg, wpc, skipped>>

\* wg.Wait() returns once the counter is zero.
Wait ==
    /\ pc = "Wait"
    /\ wg = 0
    /\ pc' = "Return"
    /\ UNCHANGED <<dispatchUnch, idx, sem, wg, wpc, skipped>>

\* A Start that prints after every batch, whatever FindNonces returned.
FindNoncesReturnPrintAlways ==
    /\ pc = "Return"
    /\ result' = foundAddress
    /\ pc' = "PrintLock"
    /\ UNCHANGED <<config, addressToNonce, mu, cancelled, loopVars, logs, idx,
                   foundAddress, sem, wg, wpc, batchStart, skipped,
                   workerLocals, snapshot>>

\* return foundAddress ; if foundAddress { nc.printNonces() }
FindNoncesReturn ==
    /\ pc = "Return"
    /\ result' = foundAddress
    /\ pc' = IF foundAddress THEN "PrintLock" ELSE "Advance"
    /\ UNCHANGED <<config, addressToNonce, mu, cancelled, loopVars, logs, idx,
                   foundAddress, sem, wg, wpc, batchStart, skipped,
                   workerLocals, snapshot>>

(* ----------------------------- printNonces ----------------------------- *)
\* sync.Mutex: Lock() proceeds only when nobody holds the mutex.
MutexFreeAlways(m) == TRUE

MutexFree(m) == m = 0

printUnch == <<config, addressToNonce, cancelled, loopVars, fnVars, workerLocals>>

PrintLock ==
    /\ pc = "PrintLock"
    /\ MutexFree(mu)
    /\ mu' = DriverId
    /\ pc' = "PrintRead"
    /\ UNCHANGED <<printUnch, snapshot>>

PrintRead ==
    /\ pc = "PrintRead"
    /\ snapshot' = Append(snapshot, [iter |-> iters, counts |-> addressToNonce])
    /\ pc' = "PrintUnlock"
    /\ UNCHANGED <<printUnch, mu>>

PrintUnlock ==
    /\ pc = "PrintUnlock"
    /\ mu' = 0
    /\ pc' = "Advance"
    /\ UNCHANGED <<printUnch, snapshot>>

\* An Advance that sets the cursor one block too far.
AdvanceSkip ==
    /\ pc = "Advance"
    /\ currentBlock' = query.to + 2
    /\ pc' = "LoopTop"
    /\ UNCHANGED <<config, addressToNonce, mu, cancelled, latestBlock, query,
                   iters, scanned, firstFrom,
                   fnVars, workerLocals, snapshot>>

\* currentBlock.Add(query.ToBlock, big.NewInt(1))
Advance ==
    /\ pc = "Advance"
    /\ currentBlock' = query.to + 1
    /\ pc' = "LoopTop"
    /\ UNCHANGED <<config, addressToNonce, mu, cancelled, latestBlock, query,
                   iters, scanned, firstFrom,
                   fnVars, workerLocals, snapshot>>

(* ------------------------- FindNonces: workers ------------------------- *)
\* Go map read: the zero value for a missing key.
MapGet(m, k) == IF k \in DOMAIN m THEN m[k] ELSE 0

\* Go map write: adds the key when it is missing.
MapPut(m, k, v) == [x \in DOMAIN m \cup {k} |-> IF x = k THEN v ELSE m[x]]

workerUnch == <<config, cancelled, loopVars, logs, idx, result,
                batchStart, skipped, snapshot>>

\* event.Parse(nc.eventName, nc.contractAbi, vLog): when the Data does not
\* unpack the goroutine returns; otherwise vLog.Topics[1] is read, which
\* panics with index out of range when the log has fewer than two topics,
\* and Owner = HexToAddress(vLog.Topics[1].Hex()).
WParse(w) ==
    /\ Alive
    /\ wpc[w] = "parse"
    /\ IF ~logs[w].ok
       THEN /\ owner' = owner
            /\ wpc' = [wpc EXCEPT ![w] = "release"]
            /\ pc' = pc
       ELSE IF logs[w].topics < 2
       THEN /\ owner' = owner
            /\ wpc' = wpc
            /\ pc' = "Panicked"
       ELSE /\ owner' = [owner EXCEPT ![w] = HexToAddress(HashHex(logs[w].owner))]
            /\ wpc' = [wpc EXCEPT ![w] = "contains"]
            /\ pc' = pc
    /\ UNCHANGED <<workerUnch, addressToNonce, mu, foundAddress, sem, wg,
                   tmp, incremented>>

\* The key incrementNonce looks up and updates: vae.Owner.Hex().
OwnerKey(a) == Hex(a)

\* incrementNonce: the membership test slices.Contains(nc.addresses, key).
IsTrackedFold(list, a) == ContainsFold(list, OwnerKey(a))

IsTrackedAlways(list, a) == TRUE

IsTracked(list, a) == Contains(list, OwnerKey(a))

\* incrementNonce, lines 213-215: return false when the owner is not tracked
\* (FindNonces then returns from the goroutine).
WContains(w) ==
    /\ Alive
    /\ pc' = pc
    /\ wpc[w] = "contains"
    /\ IF IsTracked(addresses, owner[w])
       THEN /\ wpc' = [wpc EXCEPT ![w] = "lock"]
            /\ incremented' = incremented
       ELSE /\ wpc' = [wpc EXCEPT ![w] = "release"]
            /\ incremented' = [incremented EXCEPT ![w] = "false"]
    /\ UNCHANGED <<workerUnch, addressToNonce, mu, foundAddress, sem, wg,
                   owner, tmp>>

\* nc.mu.Lock()
WLock(w) ==
    /\ Alive
    /\ pc' = pc
    /\ wpc[w] = "lock"
    /\ MutexFree(mu)
    /\ mu' = w
    /\ wpc' = [wpc EXCEPT ![w] = "incRead"]
    /\ UNCHANGED <<workerUnch, addressToNonce, foundAddress, sem, wg,
                   workerLocals>>

\* nc.addressToNonce[key]++ : the read of the current count ...
WIncRead(w) ==
    /\ Alive
    /\ pc' = pc
    /\ wpc[w] = "incRead"
    /\ tmp' = [tmp EXCEPT ![w] = MapGet(addressToNonce, OwnerKey(owner[w]))]
    /\ wpc' = [wpc EXCEPT ![w] = "incWrite"]
    /\ UNCHANGED <<workerUnch, addressToNonce, mu, foundAddress, sem, wg,
                   owner, incremented>>

\* ... and the write of the count plus one.
NextCountSame(c) == c

NextCount(c) == c + 1

WIncWrite(w) ==
    /\ Alive
    /\ pc' = pc
    /\ wpc[w] = "incWrite"
    /\ addressToNonce' = MapPut(addressToNonce, OwnerKey(owner[w]), NextCount(tmp[w]))
    /\ wpc' = [wpc EXCEPT ![w] = "unlock"]
    /\ UNCHANGED <<workerUnch, mu, foundAddress, sem, wg, workerLocals>>

\* return true, with the deferred nc.mu.Unlock()
WUnlock(w) ==
    /\ Alive
    /\ pc' = pc
    /\ wpc[w] = "unlock"
    /\ mu' = 0
    /\ incremented' = [incremented EXCEPT ![w] = "true"]
    /\ tmp' = [tmp EXCEPT ![w] = 0]
    /\ wpc' = [wpc EXCEPT ![w] = "flagRead"]
    /\ UNCHANGED <<workerUnch, addressToNonce, foundAddress, sem, wg, owner>>

\* if !foundAddress : a plain read of the shared flag.  It is ordered with
\* no write of another goroutine, so it observes the current value or the
\* initial false.
WFlagRead(w) ==
    /\ Alive
    /\ pc' = pc
    /\ wpc[w] = "flagRead"
    /\ \E v \in {foundAddress, FALSE} :
         wpc' = [wpc EXCEPT ![w] = IF v THEN "release" ELSE "flagWrite"]
    /\ UNCHANGED <<workerUnch, addressToNonce, mu, foundAddress, sem, wg,
                   workerLocals>>

\* foundAddress = true : a plain write of the shared flag.
FlagValueKept(old) == old

FlagValue(old) == TRUE

WFlagWrite(w) ==
    /\ Alive
    /\ pc' = pc
    /\ wpc[w] = "flagWrite"
    /\ foundAddress' = FlagValue(foundAddress)
    /\ wpc' = [wpc EXCEPT ![w] = "release"]
    /\ UNCHANGED <<workerUnch, addressToNonce, mu, sem, wg, workerLocals>>

\* deferred sem.Release(1)
WRelease(w) ==
    /\ Alive
    /\ pc' = pc
    /\ wpc[w] = "release"
    /\ sem' = sem - 1
    /\ wpc' = [wpc EXCEPT ![w] = "wgDone"]
    /\ UNCHANGED <<workerUnch, addressToNonce, mu, foundAddress, wg,
                   workerLocals>>

\* deferred wg.Done()
WDone(w) ==
    /\ Alive
    /\ pc' = pc
    /\ wpc[w] = "wgDone"
    /\ wg' = wg - 1
    /\ wpc' = [wpc EXCEPT ![w] = "done"]
    /\ UNCHANGED <<workerUnch, addressToNonce, mu, foundAddress, sem,
                   workerLocals>>

(* --------------------------- specifications ---------------------------- *)
Next ==
    \/ Cancel
    \/ LoopSelect
    \/ FetchTipOk
    \/ FetchTipFail
    \/ PrepareRange
    \/ FetchLogsOk
    \/ FetchLogsFail
    \/ ForNext
    \/ AcquireOk
    \/ AcquireFail
    \/ Wait
    \/ FindNoncesReturn
    \/ PrintLock
    \/ PrintRead
    \/ PrintUnlock
    \/ Advance
    \/ \E w \in DOMAIN wpc : WParse(w)
    \/ \E w \in DOMAIN wpc : WContains(w)
    \/ \E w \in DOMAIN wpc : WLock(w)
    \/ \E w \in DOMAIN wpc : WIncRead(w)
    \/ \E w \in DOMAIN wpc : WIncWrite(w)
    \/ \E w \in DOMAIN wpc : WUnlock(w)
    \/ \E w \in DOMAIN wpc : WFlagRead(w)
    \/ \E w \in DOMAIN wpc : WFlagWrite(w)
    \/ \E w \in DOMAIN wpc : WRelease(w)
    \/ \E w \in DOMAIN wpc : WDone(w)

Spec == Init /\ [][Next]_vars

\* The steps of the goroutine running Start that no failure or signal causes,
\* and the steps of the worker goroutines.
DriverStep ==
    \/ LoopSelect \/ PrepareRange \/ ForNext \/ AcquireOk \/ Wait
    \/ FindNoncesReturn \/ PrintLock \/ PrintRead \/ PrintUnlock \/ Advance

WorkerStep ==
    \E w \in DOMAIN wpc :
        \/ WParse(w) \/ WContains(w) \/ WLock(w) \/ WIncRead(w)
        \/ WIncWrite(w) \/ WUnlock(w) \/ WFlagRead(w) \/ WFlagWrite(w)
        \/ WRelease(w) \/ WDone(w)

\* The poll loop under a fair scheduler of goroutines and a transport whose
\* calls fail only intermittently: a fetch that is retried forever succeeds.
FairSpec ==
    /\ Spec
    /\ WF_vars(DriverStep)
    /\ WF_vars(WorkerStep)
    /\ SF_vars(FetchTipOk)
    /\ SF_vars(FetchLogsOk)

\* Runs of Start in which one tip fetch succeeds: a single batch, under
\* every interleaving of its workers.
InitFN == InitState(1..MaxConcurrency, MaxIters - 1)

SpecFN == InitFN /\ [][Next]_vars

\* prepareQuery on its own: any cursor, tip and positive batch size.
InitPQ ==
    /\ addresses \in AddressLists
    /\ concurrency = 1
    /\ blockBatchSize \in 1..PQMaxBatch
    /\ chain = "A"
    /\ cfg = MainConfig(concurrency, addresses, blockBatchSize)
    /\ verr = Validate(cfg)
    /\ addressToNonce = NewAddressToNonce(addresses)
    /\ mu = 0
    /\ cancelled = FALSE
    /\ pc = "PrepareRange"
    /\ currentBlock \in (0 - PQNegBlocks)..PQMaxBlock
    /\ latestBlock \in 0..PQMaxBlock
    /\ query = NoQuery
    /\ logs = <<>>
    /\ idx = 1
    /\ foundAddress = FALSE
    /\ sem = 0
    /\ wg = 0
    /\ wpc = <<>>
    /\ owner = <<>>
    /\ tmp = <<>>
    /\ incremented = <<>>
    /\ result = FALSE
    /\ snapshot = <<>>
    /\ iters = 1
    /\ scanned = {}
    /\ firstFrom = NoBlock
    /\ batchStart = addressToNonce
    /\ skipped = {}

NextPQ == PrepareRange

SpecPQ == InitPQ /\ [][NextPQ]_vars

\* NewNonceCounter on any Config: each field valid, empty, zero or negative.
ConfigInputs ==
    [Concurrency : (0 - MaxInvalid)..1,
     ContractAddress : {"", "0x38A4"},
     ContractABI : {"", "abi"},
     StartBlock : (0 - MaxInvalid)..1,
     EventName : {"", "ValidatorAdded"},
     Addresses : {<<>>} \cup AddressLists,
     BlockBatchSize : (0 - MaxInvalid)..1]

InitValidate ==
    /\ cfg \in ConfigInputs
    /\ verr = "none"
    /\ addresses = <<>>
    /\ concurrency = 0
    /\ blockBatchSize = 0
    /\ chain = "A"
    /\ addressToNonce = <<>>
    /\ mu = 0
    /\ cancelled = FALSE
    /\ pc = "New"
    /\ currentBlock = 0
    /\ latestBlock = 0
    /\ query = NoQuery
    /\ logs = <<>>
    /\ idx = 1
    /\ foundAddress = FALSE
    /\ sem = 0
    /\ wg = 0
    /\ wpc = <<>>
    /\ owner = <<>>
    /\ tmp = <<>>
    /\ incremented = <<>>
    /\ result = FALSE
    /\ snapshot = <<>>
    /\ iters = 0
    /\ scanned = {}
    /\ firstFrom = NoBlock
    /\ batchStart = <<>>
    /\ skipped = {}

\* NewNonceCounter(config): return the error of Validate, or build the
\* counter with every configured address at 0.
NewNonceCounter ==
    /\ pc = "New"
    /\ verr' = Validate(cfg)
    /\ IF verr' = "nil"
       THEN /\ addresses' = cfg.Addresses
            /\ concurrency' = cfg.Concurrency
            /\ blockBatchSize' = cfg.BlockBatchSize
            /\ addressToNonce' = NewAddressToNonce(cfg.Addresses)
            /\ pc' = "Constructed"
       ELSE /\ UNCHANGED <<addresses, concurrency, blockBatchSize, addressToNonce>>
            /\ pc' = "Rejected"
    /\ UNCHANGED <<cfg, chain, mu, cancelled, loopVars, fnVars, workerLocals,
                   snapshot>>

NextValidate == NewNonceCounter

SpecValidate == InitValidate /\ [][NextValidate]_vars

(* ------------------------ block range (C1, C2) ------------------------- *)
\* prepareQuery has returned for the inputs currentBlock, latestBlock and
\* blockBatchSize, which PrepareRange leaves as they were.
RangePrepared == pc = "FetchLogs"

\* C1: for every cursor, tip and batch size > 0 the range returned by
\* prepareQuery satisfies from <= to and to <= tip.
C1_RangeWithinTip ==
    RangePrepared => /\ query.from <= query.to
                     /\ query.to <= latestBlock

\* The cursor has overrun the tip and the range collapsed onto the tip.
C1_Witness ==
    /\ RangePrepared
    /\ currentBlock > latestBlock
    /\ query.from = latestBlock
    /\ query.to = latestBlock

\* C2: to = tip when cursor + batchSize >= tip and cursor + batchSize
\* otherwise; from = cursor when cursor <= to and to otherwise; and the three
\* scenarios (5,20,10) -> (5,15), (15,18,10) -> (15,18), (20,18,5) -> (18,18).
C2_RangeValues ==
    RangePrepared =>
        /\ (currentBlock + blockBatchSize >= latestBlock => query.to = latestBlock)
        /\ (currentBlock + blockBatchSize < latestBlock
              => query.to = currentBlock + blockBatchSize)
        /\ (currentBlock <= query.to => query.from = currentBlock)
        /\ (currentBlock > query.to => query.from = query.to)
        /\ (currentBlock = 5 /\ latestBlock = 20 /\ blockBatchSize = 10
              => query = [from |-> 5, to |-> 15])
        /\ (currentBlock = 15 /\ latestBlock = 18 /\ blockBatchSize = 10
              => query = [from |-> 15, to |-> 18])
        /\ (currentBlock = 20 /\ latestBlock = 18 /\ blockBatchSize = 5
              => query = [from |-> 18, to |-> 18])

\* The first scenario of TestPrepareQuery has been computed: the end of the
\* range is cursor + batch, below the tip.
C2_Witness ==
    /\ RangePrepared
    /\ currentBlock = 5
    /\ latestBlock = 20
    /\ blockBatchSize = 10
    /\ query.to = 15

(* ----------------------- one batch (C3 .. C6) -------------------------- *)
\* wg.Wait() has returned: FindNonces is past its join barrier.
BatchJoined == pc \in {"Return", "PrintLock", "PrintRead", "PrintUnlock", "Advance"}

\* FindNonces has returned its result to Start.
BatchReturned == pc \in {"PrintLock", "PrintRead", "PrintUnlock", "Advance"}

\* The logs of the batch that decode to the owner written as key.
LogsOwnedBy(key) ==
    {w \in DOMAIN logs : logs[w].ok /\ AddrString(logs[w].owner, "eip55") = key}

\* The logs of the batch that decode to an owner in the tracked list.
TrackedLogs ==
    {w \in DOMAIN logs :
        /\ logs[w].ok
        /\ \E i \in DOMAIN addresses :
             addresses[i] = AddrString(logs[w].owner, "eip55")}

RECURSIVE SumOver(_, _)
SumOver(f, keys) ==
    IF keys = {} THEN 0
    ELSE LET k == CHOOSE x \in keys : TRUE
         IN  f[k] + SumOver(f, keys \ {k})

Total(m) == SumOver(m, DOMAIN m)

\* C3: a batch of K logs, M of them of tracked owners, concurrency N < K, no
\* cancellation: whatever the interleaving, the counters grow by M in total
\* and each tracked address's counter by the number of its logs in the batch.
C3_NoLostUpdate ==
    (BatchJoined /\ ~cancelled /\ concurrency < Len(logs)) =>
        /\ DOMAIN addressToNonce = DOMAIN batchStart
        /\ Total(addressToNonce) = Total(batchStart) + Cardinality(TrackedLogs)
        /\ \A key \in DOMAIN batchStart :
             addressToNonce[key] = batchStart[key] + Cardinality(LogsOwnedBy(key))

\* A batch with more logs than slots, two slots, and two logs of one tracked
\* owner has been processed.
C3_Witness ==
    /\ BatchJoined
    /\ ~cancelled
    /\ concurrency = 2
    /\ concurrency < Len(logs)
    /\ \E key \in DOMAIN batchStart :
         /\ Cardinality(LogsOwnedBy(key)) >= 2
         /\ addressToNonce[key] = batchStart[key] + 2

\* Goroutines that hold a slot: started and not yet past sem.Release.
InFlight ==
    {w \in DOMAIN wpc :
        wpc[w] \in {"parse", "contains", "lock", "incRead", "incWrite",
                    "unlock", "flagRead", "flagWrite", "release"}}

\* C4: at most N workers have acquired a slot and not yet released it.
C4_AtMostNInFlight == Cardinality(InFlight) <= concurrency

\* Both slots are taken and the dispatcher waits for one with a log in hand.
C4_Witness ==
    /\ pc = "Acquire"
    /\ concurrency = 2
    /\ Cardinality(InFlight) = 2
    /\ idx <= Len(logs)

\* Some counter was incremented by a worker of the batch.
BatchIncremented ==
    \E key \in DOMAIN addressToNonce :
        MapGet(addressToNonce, key) > MapGet(batchStart, key)

\* C5: FindNonces returns true if and only if at least one counter was
\* incremented by a worker of the batch.
C5_FlagExact == BatchReturned => (result <=> BatchIncremented)

\* Two workers ran side by side, both incremented, and true was returned.
C5_Witness ==
    /\ BatchReturned
    /\ result
    /\ concurrency = 2
    /\ Cardinality({w \in DOMAIN wpc : incremented[w] = "true"}) >= 2

\* C6: no two workers are at an access of the shared flag at the same time,
\* one of them a write, with no lock held and before the join barrier.
C6_NoFlagRace ==
    ~ \E w1, w2 \in DOMAIN wpc :
        /\ w1 # w2
        /\ wpc[w1] = "flagWrite"
        /\ wpc[w2] \in {"flagRead", "flagWrite"}
        /\ mu \notin {w1, w2}

(* ------------------------ scanned history (C7) ------------------------- *)
\* Number of logs of block b that decode to the owner written as key.
BlockLogsOwnedBy(b, key) ==
    LET ls == ChainLogs(chain, b)
    IN  Cardinality({i \in DOMAIN ls :
                        ls[i].ok /\ AddrString(ls[i].owner, "eip55") = key})

RECURSIVE ChainLogsOwnedBy(_, _)
ChainLogsOwnedBy(blocks, key) ==
    IF blocks = {} THEN 0
    ELSE LET b == CHOOSE x \in blocks : TRUE
         IN  BlockLogsOwnedBy(b, key) + ChainLogsOwnedBy(blocks \ {b}, key)

\* Every log of the blocks scanned so far decodes.
AllScannedDecode ==
    \A b \in scanned :
        LET ls == ChainLogs(chain, b) IN \A i \in DOMAIN ls : ls[i].ok

\* C7: between iterations, without cancellation and with every log decoding,
\* each tracked address's counter equals the number of chain logs of that
\* owner in the blocks scanned so far, whatever tips were fetched.
C7_CountsMatchChain ==
    (pc = "LoopTop" /\ ~cancelled /\ AllScannedDecode) =>
        \A key \in DOMAIN addressToNonce :
            addressToNonce[key] = ChainLogsOwnedBy(scanned, key)

(* ----------------------- incrementNonce (C8 .. C10) -------------------- *)
\* The worker has left incrementNonce on its return true path.
PastIncrement == {"flagRead", "flagWrite", "release", "wgDone", "done"}

\* The worker is finished with its log.
Finished == {"wgDone", "done"}

\* Worker w performs the ++ of incrementNonce in this step.
IncrementStep(w) == wpc[w] = "incWrite" /\ wpc'[w] = "unlock"

\* C8: incrementNonce for a tracked owner whose count is c leaves that count
\* at c + 1 and every other count as it was, and returns true.
C8_IncrementByOne ==
    /\ [][\A w \in DOMAIN wpc :
            IncrementStep(w) =>
                LET key == AddrString(owner[w], "eip55")
                IN  /\ key \in DOMAIN addressToNonce
                    /\ addressToNonce' =
                         [addressToNonce EXCEPT ![key] = addressToNonce[key] + 1]]_vars
    /\ [](\A w \in DOMAIN wpc :
            (/\ logs[w].ok
             /\ \E i \in DOMAIN addresses :
                  addresses[i] = AddrString(logs[w].owner, "eip55")
             /\ wpc[w] \in Finished) => incremented[w] = "true")

\* A tracked owner's count went from 1 to 2 and the call returned true.
C8_Witness ==
    \E w \in DOMAIN wpc :
        /\ wpc[w] \in PastIncrement
        /\ incremented[w] = "true"
        /\ addressToNonce[AddrString(owner[w], "eip55")] = 2

\* The log of worker w decodes to an owner that no configured string equals.
Untracked(w) ==
    /\ logs[w].ok
    /\ \A i \in DOMAIN addresses :
         addresses[i] # AddrString(logs[w].owner, "eip55")

\* C9: incrementNonce for an owner absent from the tracked list returns
\* false and leaves the store alone: the worker never reaches the lock or the
\* ++, no key is added for the owner and the key set stays the configured one.
C9_AbsentOwnerNoEffect ==
    /\ DOMAIN addressToNonce = {addresses[i] : i \in DOMAIN addresses}
    /\ \A w \in DOMAIN wpc :
         Untracked(w) =>
            /\ wpc[w] \in {"idle", "parse", "contains", "release", "wgDone", "done"}
            /\ incremented[w] # "true"
            /\ (wpc[w] \in Finished => incremented[w] = "false")

\* A worker finished a log of the untracked owner 3 with false returned.
C9_Witness ==
    \E w \in DOMAIN wpc :
        /\ Untracked(w)
        /\ logs[w].owner = 3
        /\ wpc[w] = "done"
        /\ incremented[w] = "false"

\* Some configured string denotes the owner of the log of worker w.
DenotesOwner(w) ==
    /\ logs[w].ok
    /\ \E i \in DOMAIN addresses : addresses[i].addr = logs[w].owner

\* C10 as stated: an owner is treated as tracked whenever some configured
\* string denotes the same address, whatever its letter case.
C10_CaseInsensitive ==
    \A w \in DOMAIN wpc :
        (DenotesOwner(w) /\ wpc[w] \in Finished) => incremented[w] = "true"

\* C10 amended: an owner is treated as tracked exactly when some configured
\* string equals the owner's EIP-55 form; a configured string in another
\* letter case does not match.
C10_ExactChecksumMatch ==
    \A w \in DOMAIN wpc :
        (logs[w].ok /\ wpc[w] \in Finished) =>
            (incremented[w] = "true"
                <=> \E i \in DOMAIN addresses :
                       /\ addresses[i].addr = logs[w].owner
                       /\ addresses[i].form = "eip55")

\* The owner's address is configured in lower case and the log was not counted.
C10_Witness ==
    \E w \in DOMAIN wpc :
        /\ DenotesOwner(w)
        /\ Untracked(w)
        /\ wpc[w] = "done"
        /\ incremented[w] = "false"
        /\ \A key \in DOMAIN addressToNonce : addressToNonce[key] = batchStart[key]

(* --------------------------- Validate (C11) ---------------------------- *)
\* The seven constraints on a Config, in the order they are to be checked.
Constraint(c, k) ==
    CASE k = 1 -> c.Concurrency > 0
      [] k = 2 -> c.ContractAddress # ""
      [] k = 3 -> c.ContractABI # ""
      [] k = 4 -> c.StartBlock >= 0
      [] k = 5 -> c.EventName # ""
      [] k = 6 -> c.Addresses # <<>>
      [] k = 7 -> c.BlockBatchSize > 0

\* The error of each constraint.
ConstraintError ==
    << "concurrency must be greater than 0",
       "contract address must be provided",
       "contract ABI must be provided",
       "start block must be greater than or equal to 0",
       "event name must be provided",
       "addresses must be provided",
       "block batch size must be greater than 0" >>

\* C11: Validate returns nil exactly when all seven constraints hold, and
\* otherwise the error of the first violated constraint in the order
\* concurrency, contract address, ABI, start block, event name, addresses,
\* batch size; the seven errors are pairwise distinct.
C11_FirstViolationReported ==
    verr # "none" =>
        /\ (verr = "nil" <=> \A k \in 1..7 : Constraint(cfg, k))
        /\ \A k \in 1..7 :
             ((\A j \in 1..(k - 1) : Constraint(cfg, j)) /\ ~Constraint(cfg, k))
                 => verr = ConstraintError[k]
        /\ \A j, k \in 1..7 : j # k => ConstraintError[j] # ConstraintError[k]
        /\ \A k \in 1..7 : ConstraintError[k] # "nil"

\* A Config that violates both of the last two constraints was rejected with
\* the error of the earlier one.
C11_Witness ==
    /\ pc = "Rejected"
    /\ cfg.Addresses = <<>>
    /\ cfg.BlockBatchSize <= 0
    /\ verr = "addresses must be provided"

(* -------------------------- counter store (C12) ------------------------ *)
\* The configured address strings.
Configured == {addresses[i] : i \in DOMAIN addresses}

\* C12: the store holds 0 for every configured address right after
\* NewNonceCounter, and at all times its keys are the configured addresses.
C12_KeysAreConfigured ==
    /\ DOMAIN addressToNonce = Configured
    /\ (scanned = {} => \A key \in Configured : addressToNonce[key] = 0)

\* Two batches were processed, counters grew and a snapshot was printed.
C12_Witness ==
    /\ pc = "LoopTop"
    /\ iters = 2
    /\ Len(snapshot) >= 1
    /\ \E key \in Configured : addressToNonce[key] >= 2

(* ------------------------ mutual exclusion (C13) ----------------------- *)
\* Workers between nc.mu.Lock() and nc.mu.Unlock() in incrementNonce.
InIncrement == {w \in DOMAIN wpc : wpc[w] \in {"incRead", "incWrite", "unlock"}}

\* The goroutine of Start is between Lock and Unlock in printNonces.
InPrint == pc \in {"PrintRead", "PrintUnlock"}

\* C13: every access of the counter map, by incrementNonce or printNonces,
\* is made by the holder of nc.mu, so no two are inside at once and a
\* snapshot is never read in the middle of an increment.
C13_MapUnderMutex ==
    /\ \A w \in InIncrement : mu = w
    /\ InPrint => mu = DriverId
    /\ Cardinality(InIncrement) <= 1
    /\ InPrint => InIncrement = {}

\* One worker is between the read and the write of its ++ while another
\* waits at nc.mu.Lock().
C13_Witness ==
    \E w1, w2 \in DOMAIN wpc :
        /\ w1 # w2
        /\ wpc[w1] = "incWrite"
        /\ wpc[w2] = "lock"
        /\ mu = w1

(* ------------------------- decode failure (C14) ------------------------ *)
\* The log of worker w does not have the shape of the event: its Data does
\* not unpack, or it lacks the topic that carries the owner.
Undecodable(w) == ~logs[w].ok \/ logs[w].topics < 2

\* C14: a log that fails to decode is skipped: its worker changes no counter
\* and does not set the flag, and the process is never aborted.
C14_DecodeFailureSkipped ==
    /\ Alive
    /\ \A w \in DOMAIN wpc :
         Undecodable(w) =>
            /\ wpc[w] \in {"idle", "parse", "release", "wgDone", "done"}
            /\ incremented[w] = "none"

(* -------------------------- failed fetch (C15) ------------------------- *)
\* The step in which HeaderByNumber or FilterLogs returns an error: the
\* loop leaves the fetch without going on to the next stage.
FetchFailed ==
    \/ pc = "FetchTip" /\ pc' \notin {"FetchTip", "PrepareRange"}
    \/ pc = "FetchLogs" /\ pc' \notin {"FetchLogs", "Dispatch"}

\* From the top of the loop up to the log fetch nothing of the iteration
\* has touched the cursor, the counters, the output or the workers.
BeforeBatch == pc \in {"LoopTop", "FetchTip", "PrepareRange", "FetchLogs"}

\* C15: an iteration whose tip fetch or log fetch fails leaves the cursor and
\* every counter unchanged, processes no batch and emits no snapshot, and
\* the loop goes back to its top (a new tip fetch unless cancelled), never
\* to Stopped.
C15_FailedFetchRetries ==
    [][ /\ FetchFailed =>
            /\ pc' = "LoopTop"
            /\ UNCHANGED <<currentBlock, addressToNonce, snapshot, scanned,
                           fnVars, workerLocals>>
        /\ (BeforeBatch /\ pc' # "Dispatch") =>
              UNCHANGED <<currentBlock, addressToNonce, snapshot, scanned,
                          wpc>>
        /\ (pc = "LoopTop" /\ ~cancelled /\ pc' # pc) => pc' = "FetchTip"
      ]_vars

\* A log fetch has failed in the second iteration, after the first one
\* counted events: the cursor still stands at the start of the range that
\* was asked for, and that range is not scanned.
C15_Witness ==
    /\ pc = "LoopTop"
    /\ iters = 2
    /\ query.from = currentBlock
    /\ query.from <= query.to
    /\ query.from \notin scanned
    /\ \E key \in DOMAIN addressToNonce : addressToNonce[key] > 0

(* --------------------------- cancellation (C16) ------------------------ *)
\* No goroutine of the batch is running or blocked: every log's worker has
\* finished or was never started, and no slot or WaitGroup count is held.
NoWorkerLeft ==
    /\ \A w \in DOMAIN wpc : wpc[w] \in {"idle", "done"}
    /\ sem = 0
    /\ wg = 0

\* C16: once cancellation is triggered the loop is on its way to Stopped:
\* the process is not aborted before Start returns, the select at the top
\* of the loop takes the ctx.Done() branch so no further range is started,
\* and when Stopped is reached no worker is running or blocked.
C16_CancelStops ==
    [][ /\ cancelled' => pc' # "Panicked"
        /\ (cancelled /\ pc = "LoopTop" /\ pc' # pc) => pc' = "Stopped"
        /\ (pc' = "Stopped" /\ pc # "Stopped") =>
              /\ cancelled
              /\ NoWorkerLeft'
              /\ currentBlock' = currentBlock
      ]_vars

(* ------------------------ aborted Acquire (C17) ------------------------ *)
\* The logs for which a goroutine was started.
Started == DOMAIN wpc \ skipped

\* The started logs of the batch that decode to the owner written as key.
StartedLogsOwnedBy(key) == LogsOwnedBy(key) \cap {w \in Started : wpc[w] # "idle"}

\* C17: a log whose Acquire is aborted by cancellation is skipped: no
\* goroutine runs for it, it increments nothing and does not set the flag
\* (counters and flag come from the started logs alone), and wg.Wait()
\* returns as soon as the started workers have finished.
C17_AbortedAcquireSkips ==
    /\ \A w \in skipped :
         /\ cancelled
         /\ wpc[w] = "idle"
         /\ owner[w] = 0
         /\ incremented[w] = "none"
    /\ (pc = "Wait" /\ \A w \in Started : wpc[w] = "done") => wg = 0
    /\ BatchJoined =>
         /\ \A w \in Started : wpc[w] = "done"
         /\ \A key \in DOMAIN batchStart :
              addressToNonce[key] =
                 batchStart[key] + Cardinality(StartedLogsOwnedBy(key))
         /\ foundAddress => \E w \in Started : incremented[w] = "true"

\* The second log of a batch was skipped on cancellation, the first one was
\* counted by its worker, and FindNonces has returned.
C17_Witness ==
    /\ BatchReturned
    /\ skipped = {2}
    /\ incremented[1] = "true"
    /\ result

(* --------------------------- join barrier (C18) ------------------------ *)
\* Start is inside FindNonces, between its first line and wg.Wait().
InFindNonces == pc \in {"Dispatch", "Acquire", "Wait"}

\* C18: outside FindNonces (when Start reports, advances the cursor, or runs
\* the next iteration up to the next log fetch) every worker started for the
\* last batch has completed and holds neither a slot nor a WaitGroup count:
\* the workers of one batch are over before those of the next one exist.
C18_WorkersJoinedOutsideBatch ==
    (Alive /\ ~InFindNonces) =>
        /\ \A w \in DOMAIN wpc :
             \/ wpc[w] = "done"
             \/ wpc[w] = "idle" /\ w \in skipped
        /\ sem = 0
        /\ wg = 0

\* The second iteration's batch of two logs has been joined and is about to
\* be followed by the cursor advance; the first iteration's batch had
\* counted events too.
C18_Witness ==
    /\ pc = "Advance"
    /\ iters = 2
    /\ Len(logs) = 2
    /\ \A w \in DOMAIN wpc : wpc[w] = "done"
    /\ Len(snapshot) >= 1
    /\ snapshot[1].iter = 1

(* ----------------------------- report (C19) --------------------------- *)
\* printNonces has run in the current iteration.
EmittedThisIteration == \E i \in DOMAIN snapshot : snapshot[i].iter = iters

\* C19: the counters are printed in an iteration exactly when FindNonces
\* returned true for its batch; the print happens once, with every worker
\* of the batch finished and before the cursor moves, and what is printed is
\* the store with every increment of the batch in it.
C19_SnapshotIffUpdated ==
    [][ /\ snapshot' # snapshot =>
            /\ pc = "PrintRead"
            /\ result
            /\ ~EmittedThisIteration
            /\ \A w \in Started : wpc[w] = "done"
            /\ snapshot' = Append(snapshot,
                                  [iter |-> iters, counts |-> addressToNonce])
            /\ \A key \in DOMAIN batchStart :
                 addressToNonce[key] =
                    batchStart[key] + Cardinality(StartedLogsOwnedBy(key))
            /\ currentBlock' = currentBlock
        /\ currentBlock' # currentBlock =>
            /\ result <=> EmittedThisIteration
            /\ EmittedThisIteration =>
                 snapshot[Len(snapshot)].counts = addressToNonce
      ]_vars

\* The first iteration counted two events and printed them; the second one
\* processed a batch without any tracked owner, printed nothing, and is
\* about to advance the cursor.
C19_Witness ==
    /\ pc = "Advance"
    /\ iters = 2
    /\ ~result
    /\ Len(logs) >= 1
    /\ Len(snapshot) = 1
    /\ snapshot[1].iter = 1
    /\ snapshot[1].counts = addressToNonce
    /\ \E key \in DOMAIN addressToNonce : addressToNonce[key] >= 2

(* --------------------------- stopping (C20) --------------------------- *)
\* The poll loop has stopped running: Start has returned, or the process
\* was ended under it.
LoopEnded == pc \in {"Stopped", "Panicked"}

\* C20: the poll loop stops only if cancellation has been signalled: no
\* failed fetch, undecodable log, empty batch or degenerate range ends it.
C20_StopsOnlyOnCancel == LoopEnded => cancelled

\* Start itself returns only through its ctx.Done() branch.
StoppedOnlyOnCancel == pc = "Stopped" => cancelled

(* ------------------------ cursor advance (C21) ------------------------ *)
\* The to of the latest processed range: the query in hand once its logs
\* were fetched, and the block before the cursor once the cursor was moved.
LatestTo ==
    IF BeforeBatch \/ pc = "Stopped" THEN currentBlock - 1 ELSE query.to

\* Every block from the first scanned one to the latest range's to is scanned.
NoBlockSkipped ==
    (Alive /\ firstFrom # NoBlock) =>
        \A b \in firstFrom..LatestTo : b \in scanned

\* C21: the cursor changes only in the step after a processed batch, which
\* sets it to range.to + 1; each range starts at most at the cursor, that is
\* at most one block after the previous range's to; and no block between
\* the first scanned block and the latest range's to is left out.
C21_CursorFollowsRange ==
    [][ /\ currentBlock' # currentBlock =>
            /\ pc = "Advance"
            /\ query.to \in scanned
        /\ (pc = "Advance" /\ pc' # pc) => currentBlock' = query.to + 1
        /\ query' # query =>
            /\ query'.from <= currentBlock
            /\ firstFrom # NoBlock => query'.from <= LatestTo + 1
        /\ NoBlockSkipped'
      ]_vars

\* Two ranges were processed, the second one starting right after the
\* first, and the cursor stands after the second.
C21_Witness ==
    /\ pc = "LoopTop"
    /\ iters = 2
    /\ firstFrom # NoBlock
    /\ query.from > firstFrom
    /\ currentBlock = query.to + 1
    /\ Cardinality(scanned) >= 2
    /\ scanned = firstFrom..query.to

(* --------------------- termination of FindNonces (C22) ----------------- *)
\* A step of FindNonces: of its dispatching loop or of one of its workers.
FindNoncesStep ==
    \/ ForNext
    \/ AcquireOk
    \/ AcquireFail
    \/ Wait
    \/ \E w \in DOMAIN wpc :
          \/ WParse(w) \/ WContains(w) \/ WLock(w) \/ WIncRead(w)
          \/ WIncWrite(w) \/ WUnlock(w) \/ WFlagRead(w) \/ WFlagWrite(w)
          \/ WRelease(w) \/ WDone(w)

\* The logs for which wg.Add(1) was called, and those for which wg.Done()
\* was called (by the dispatcher for a skipped log, else by the worker).
Added == {w \in DOMAIN logs : w < idx \/ (w = idx /\ pc = "Acquire")}
DoneCalled == skipped \cup {w \in DOMAIN wpc : wpc[w] = "done"}

\* While the process runs: FindNonces is never stuck, the WaitGroup counts
\* the added logs that are not finished, the slots in use are those of the
\* workers between Acquire and Release, and after wg.Wait() every log was
\* added and finished once and every slot is free.
FindNoncesAccounted ==
    Alive =>
        /\ InFindNonces => ENABLED FindNoncesStep
        /\ DoneCalled \subseteq Added
        /\ wg = Cardinality(Added) - Cardinality(DoneCalled)
        /\ sem = Cardinality(InFlight)
        /\ \A w \in skipped : wpc[w] = "idle"
        /\ BatchJoined =>
             /\ Added = DOMAIN logs
             /\ DoneCalled = DOMAIN logs
             /\ sem = 0
             /\ wg = 0

\* C22: for every batch and every concurrency limit, with or without
\* cancellation, FindNonces terminates: it is never stuck and never
\* abandoned before it returns; each log has one wg.Add and one wg.Done,
\* each acquired slot one Release, and all slots are free at the return.
C22_FindNoncesTerminates ==
    /\ Alive
    /\ FindNoncesAccounted

(* ----------------------------- progress (C23) -------------------------- *)
\* The cursor has passed the tip last fetched, and every block from the
\* first scanned one (at most the start block) to that tip is in a scanned
\* range.
PassedTip ==
    /\ iters >= 1
    /\ currentBlock > latestBlock
    /\ firstFrom # NoBlock
    /\ \A b \in firstFrom..latestBlock : b \in scanned

\* The loop is back at the tip fetch with the MaxIters successful tip
\* fetches of a run used up: the run is not followed any further.
FetchBudgetSpent == pc = "FetchTip" /\ iters = MaxIters

\* C23: without cancellation, with fetches that fail only intermittently and
\* a fair scheduler, the cursor eventually passes every block from the start
\* block to the chain tip, each of them inside a scanned range (in runs that
\* get there within MaxIters tip fetches).
C23_CursorPassesTip == <>(cancelled \/ PassedTip \/ FetchBudgetSpent)

====
